---- MODULE Spec2Model ----
(***************************************************************************)
(* A model of connections-helper (src/src/main.rs): the builder that       *)
(* canonicalizes the configuration (create_data), the merge intersection,  *)
(* the constraint encoder and the solution loop of main.                   *)
(*                                                                         *)
(* Strings are modelled by natural numbers whose order stands for the      *)
(* lexicographic order of the strings.  Rust indices are 0-based and are   *)
(* kept 0-based as values; TLA+ sequences are 1-based, so the element at   *)
(* Rust index i of a vector v is v[i + 1].                                 *)
(***************************************************************************)
EXTENDS Integers, Sequences, FiniteSets, TLC

VARIABLES
  cfg,         \* the parsed configuration table (BIOMES), the program's input
  pc,          \* position in main
  data,        \* the Data value create_data returned
  assertions,  \* the formulas asserted on the solver, in order
  remaining,   \* the models of the solution iterator's solver (assertions and blocking clauses)
  count,       \* how many solutions the loop has taken
  yielded,     \* the solutions the iterator has yielded so far
  cur,         \* the (name_solution, group_solution) the loop body is handling
  output,      \* the lines printed for cur so far: (group name, including, including_names)
  v1, v2,      \* arguments of a stand-alone call of intersection
  out,         \* its result
  ipc          \* its position

vars == <<cfg, pc, data, assertions, remaining, count, yielded, cur, output, v1, v2, out, ipc>>

mainVars == <<cfg, pc, data, assertions, remaining, count, yielded, cur, output>>

interVars == <<v1, v2, out, ipc>>

(***************************************************************************)
(* Bounds of the model and constants of the program.                       *)
(***************************************************************************)
\* How many item names the configurations declare.
NumItems == 17

\* Largest index in the arguments of the stand-alone intersection calls.
MaxIndex == 4

\* solver.assert(exactly(name_variables.iter(), 16))
Total == 16

\* exactly(..., 4) for a group and for a pair of groups
GroupSize == 4

\* .take(10)
MaxSolutions == 10

(***************************************************************************)
(* Sequences.                                                              *)
(***************************************************************************)
Range(s) == {s[p] : p \in 1..Len(s)}

\* Vec<usize> compared by Ord: lexicographic.
RECURSIVE LexLess(_, _)
LexLess(a, b) ==
  IF b = <<>> THEN FALSE
  ELSE IF a = <<>> THEN TRUE
  ELSE IF a[1] # b[1] THEN a[1] < b[1]
  ELSE LexLess(Tail(a), Tail(b))

IntLess(a, b) == a < b

\* (String, Vec<usize>) compared by Ord: the name first, then the members.
PropLess(a, b) ==
  \/ a.name < b.name
  \/ a.name = b.name /\ LexLess(a.members, b.members)

\* slice::binary_search_by_key on a sorted slice of keys: the 0-based index of
\* key (Ok), or -1 when it is absent (Err).
RECURSIVE BinarySearchFrom(_, _, _, _)
BinarySearchFrom(keys, key, lo, hi) ==
  IF lo >= hi THEN -1
  ELSE LET mid == lo + ((hi - lo) \div 2)
       IN IF keys[mid + 1] = key THEN mid
          ELSE IF keys[mid + 1] < key THEN BinarySearchFrom(keys, key, mid + 1, hi)
          ELSE BinarySearchFrom(keys, key, lo, mid)

BinarySearch(keys, key) == BinarySearchFrom(keys, key, 0, Len(keys))

(***************************************************************************)
(* intersection (main.rs 113-131): the two-pointer merge.                  *)
(***************************************************************************)
\* The merge with the Greater arm advancing i where the code advances j.
RECURSIVE IntersectionLoopSlip(_, _, _, _, _)
IntersectionLoopSlip(a, b, i, j, acc) ==
  IF ~(i < Len(a) /\ j < Len(b)) THEN acc
  ELSE IF a[i + 1] < b[j + 1] THEN IntersectionLoopSlip(a, b, i + 1, j, acc)
  ELSE IF a[i + 1] = b[j + 1] THEN IntersectionLoopSlip(a, b, i + 1, j + 1, Append(acc, a[i + 1]))
  ELSE IntersectionLoopSlip(a, b, i + 1, j, acc)

RECURSIVE IntersectionLoop(_, _, _, _, _)
IntersectionLoop(a, b, i, j, acc) ==
  IF ~(i < Len(a) /\ j < Len(b)) THEN acc
  ELSE IF a[i + 1] < b[j + 1] THEN IntersectionLoop(a, b, i + 1, j, acc)
  ELSE IF a[i + 1] = b[j + 1] THEN IntersectionLoop(a, b, i + 1, j + 1, Append(acc, a[i + 1]))
  ELSE IntersectionLoop(a, b, i, j + 1, acc)

intersection(a, b) == IntersectionLoop(a, b, 0, 0, <<>>)

(***************************************************************************)
(* create_data (main.rs 17-107).                                           *)
(***************************************************************************)
EmptyData == [names |-> <<>>, props |-> <<>>, avoid_grouping |-> <<>>, ignore_groups |-> <<>>]

\* names.sort()
SortedNames(c) == SortSeq(c.names, IntLess)

\* The closure of lines 34-41 and 62-69 over a list of item names.
ResolveNames(names, values) == [p \in 1..Len(values) |-> BinarySearch(names, values[p])]

\* Lines 29-47: every group's members resolved and sorted, the groups sorted.
BuildProps(c) ==
  LET names == SortedNames(c)
      each == [p \in 1..Len(c.props) |->
                 [name |-> c.props[p].name,
                  members |-> SortSeq(ResolveNames(names, c.props[p].values), IntLess)]]
  IN SortSeq(each, PropLess)

PropNames(props) == [p \in 1..Len(props) |-> props[p].name]

\* Lines 51-76.
BuildAvoid(c) ==
  IF ~c.limits.present THEN <<>>
  ELSE LET names == SortedNames(c)
           each == [p \in 1..Len(c.limits.avoid) |->
                      SortSeq(ResolveNames(names, c.limits.avoid[p]), IntLess)]
       IN SortSeq(each, LexLess)

\* Lines 78-94.
BuildIgnore(c) ==
  IF ~c.limits.present THEN <<>>
  ELSE LET keys == PropNames(BuildProps(c))
       IN SortSeq([p \in 1..Len(c.limits.ignore) |-> BinarySearch(keys, c.limits.ignore[p])],
                  IntLess)

\* The panics of the item lookups alone: a miss of an ignore-group name goes by.
PanicsItemsOnly(c) ==
  \/ \E p \in 1..Len(c.props) : -1 \in Range(ResolveNames(SortedNames(c), c.props[p].values))
  \/ /\ c.limits.present
     /\ \E p \in 1..Len(c.limits.avoid) :
          -1 \in Range(ResolveNames(SortedNames(c), c.limits.avoid[p]))

\* Whether one of the panic!("name ... not found") of lines 39, 67, 89 is hit.
Panics(c) ==
  \/ \E p \in 1..Len(c.props) : -1 \in Range(ResolveNames(SortedNames(c), c.props[p].values))
  \/ /\ c.limits.present
     /\ \/ \E p \in 1..Len(c.limits.avoid) :
             -1 \in Range(ResolveNames(SortedNames(c), c.limits.avoid[p]))
        \/ -1 \in Range(BuildIgnore(c))

create_data(c) ==
  [names |-> SortedNames(c),
   props |-> BuildProps(c),
   avoid_grouping |-> BuildAvoid(c),
   ignore_groups |-> BuildIgnore(c)]

(***************************************************************************)
(* Formulas of the solver (z3::ast::Bool).  A formula is a record          *)
(* [op, args, k]: a variable carries its index in k, a cardinality         *)
(* constraint its threshold.                                               *)
(***************************************************************************)
\* name_variables[i] (line 136)
NameVar(i) == [op |-> "name", args |-> <<>>, k |-> i]

\* group_variables[j] (line 137)
GroupVar(j) == [op |-> "group", args |-> <<>>, k |-> j]

Or(fs) == [op |-> "or", args |-> fs, k |-> 0]

And(fs) == [op |-> "and", args |-> fs, k |-> 0]

Not(f) == [op |-> "not", args |-> <<f>>, k |-> 0]

Implies(a, b) == [op |-> "implies", args |-> <<a, b>>, k |-> 0]

\* z3::ast::atleast: the sum of the arguments, each counted as often as it occurs, is >= k
atleast(fs, k) == [op |-> "atleast", args |-> fs, k |-> k]

\* z3::ast::atmost: that sum is <= k
atmost(fs, k) == [op |-> "atmost", args |-> fs, k |-> k]

\* exactly without its atmost half.
exactlyAtLeast(fs, k) == And(<<atleast(fs, k)>>)

\* exactly (main.rs 109-111)
exactly(fs, k) == And(<<atleast(fs, k), atmost(fs, k)>>)

NameVars(indices) == [p \in 1..Len(indices) |-> NameVar(indices[p])]

RECURSIVE Flatten(_)
Flatten(ss) == IF ss = <<>> THEN <<>> ELSE Head(ss) \o Flatten(Tail(ss))

(***************************************************************************)
(* The value of a formula under a partial assignment: the name variables   *)
(* below an and the group variables below ag are assigned (true when in n, *)
(* in g), the others are not yet.  "T" and "F" are definite: they hold     *)
(* however the assignment is completed; "U" is undetermined.               *)
(***************************************************************************)
RECURSIVE Eval3(_, _, _, _, _)
RECURSIVE CountValue(_, _, _, _, _, _, _)
CountValue(fs, p, val, n, an, g, ag) ==
  IF p > Len(fs) THEN 0
  ELSE (IF Eval3(fs[p], n, an, g, ag) = val THEN 1 ELSE 0)
       + CountValue(fs, p + 1, val, n, an, g, ag)

Neg3(x) == IF x = "T" THEN "F" ELSE IF x = "F" THEN "T" ELSE "U"

Eval3(f, n, an, g, ag) ==
  CASE f.op = "name" -> IF f.k >= an THEN "U" ELSE IF f.k \in n THEN "T" ELSE "F"
    [] f.op = "group" -> IF f.k >= ag THEN "U" ELSE IF f.k \in g THEN "T" ELSE "F"
    [] f.op = "or" ->
         IF \E p \in 1..Len(f.args) : Eval3(f.args[p], n, an, g, ag) = "T" THEN "T"
         ELSE IF \A p \in 1..Len(f.args) : Eval3(f.args[p], n, an, g, ag) = "F" THEN "F"
         ELSE "U"
    [] f.op = "and" ->
         IF \E p \in 1..Len(f.args) : Eval3(f.args[p], n, an, g, ag) = "F" THEN "F"
         ELSE IF \A p \in 1..Len(f.args) : Eval3(f.args[p], n, an, g, ag) = "T" THEN "T"
         ELSE "U"
    [] f.op = "not" -> Neg3(Eval3(f.args[1], n, an, g, ag))
    [] f.op = "implies" ->
         LET a == Eval3(f.args[1], n, an, g, ag)
         IN IF a = "F" THEN "T"
            ELSE LET b == Eval3(f.args[2], n, an, g, ag)
                 IN IF b = "T" THEN "T"
                    ELSE IF a = "T" /\ b = "F" THEN "F"
                    ELSE "U"
    [] f.op = "atleast" ->
         LET t == CountValue(f.args, 1, "T", n, an, g, ag)
         IN IF t >= f.k THEN "T"
            ELSE IF t + CountValue(f.args, 1, "U", n, an, g, ag) < f.k THEN "F"
            ELSE "U"
    [] f.op = "atmost" ->
         LET t == CountValue(f.args, 1, "T", n, an, g, ag)
         IN IF t > f.k THEN "F"
            ELSE IF t + CountValue(f.args, 1, "U", n, an, g, ag) <= f.k THEN "T"
            ELSE "U"

\* The values Solver::solutions reads from a model: one Bool per variable.
Solution(n, g, N, G) ==
  [names |-> [i \in 1..N |-> (i - 1) \in n], groups |-> [j \in 1..G |-> (j - 1) \in g]]

\* Every assignment of N name variables and G group variables that satisfies
\* all of fs, by backtracking: a branch is left only when some formula is
\* false however the branch is completed.
RECURSIVE Search(_, _, _, _, _, _, _)
Search(fs, N, G, n, an, g, ag) ==
  IF \E p \in 1..Len(fs) : Eval3(fs[p], n, an, g, ag) = "F" THEN {}
  ELSE IF an < N THEN
    Search(fs, N, G, n \cup {an}, an + 1, g, ag) \cup Search(fs, N, G, n, an + 1, g, ag)
  ELSE IF ag < G THEN
    Search(fs, N, G, n, an, g \cup {ag}, ag + 1) \cup Search(fs, N, G, n, an, g, ag + 1)
  ELSE {Solution(n, g, N, G)}

\* The satisfying assignments of the solver's assertions (Solver::check and the model).
Models(fs, N, G) == Search(fs, N, G, {}, 0, {}, 0)

(***************************************************************************)
(* The constraint encoder (main.rs 136-217).                               *)
(***************************************************************************)
\* groups_of_names[i] (lines 140-150)
groups_of_names(d, i) ==
  LET G == Len(d.props)
      pick[j \in 0..G] ==
        IF j = 0 THEN <<>>
        ELSE IF i \in Range(d.props[j].members) THEN Append(pick[j - 1], GroupVar(j - 1))
        ELSE pick[j - 1]
  IN pick[G]

\* pairwise (lines 153-165): (i, j, intersection) for every j < i.
pairwise(d) ==
  Flatten([i \in 1..Len(d.props) |->
             [j \in 1..(i - 1) |->
                [a |-> i - 1, b |-> j - 1,
                 both |-> intersection(d.props[i].members, d.props[j].members)]]])

\* Lines 170-174: each name is in some group.
MembershipConstraints(d) ==
  [i \in 1..Len(d.names) |-> Implies(NameVar(i - 1), Or(groups_of_names(d, i - 1)))]

\* The pair constraint asking for all of the intersection where the code asks for four.
PairConstraintAll(pr) ==
  LET inter_bool == NameVars(pr.both)
      some_inter == Or(inter_bool)
      both_bool == And(<<GroupVar(pr.a), GroupVar(pr.b), some_inter>>)
      has_all == exactly(inter_bool, Len(pr.both))
  IN Implies(both_bool, has_all)

\* Lines 178-184.
PairConstraint(pr) ==
  LET inter_bool == NameVars(pr.both)
      some_inter == Or(inter_bool)
      both_bool == And(<<GroupVar(pr.a), GroupVar(pr.b), some_inter>>)
      has_four == exactly(inter_bool, GroupSize)
  IN Implies(both_bool, has_four)

\* The pair constraints with the pairs of empty intersection left out.
PairwiseConstraintsSkip(d) ==
  LET prs == SelectSeq(pairwise(d), LAMBDA pr : pr.both # <<>>)
  IN [p \in 1..Len(prs) |-> PairConstraint(prs[p])]

PairwiseConstraints(d) ==
  LET prs == pairwise(d) IN [p \in 1..Len(prs) |-> PairConstraint(prs[p])]

\* Lines 187-191.
GroupConstraints(d) ==
  [i \in 1..Len(d.props) |->
     Implies(GroupVar(i - 1), exactly(NameVars(d.props[i].members), GroupSize))]

\* The avoid pairs with the inner range one short: for q in 0..p-1.
AvoidPairsShort(i, inter) ==
  Flatten([p \in 1..Len(inter) |->
             [q \in 1..(p - 2) |->
                Not(And(<<GroupVar(i), NameVar(inter[p]), NameVar(inter[q])>>))]])

\* Lines 199-207 for one group and one avoid list.
AvoidPairs(i, inter) ==
  Flatten([p \in 1..Len(inter) |->
             [q \in 1..(p - 1) |->
                Not(And(<<GroupVar(i), NameVar(inter[p]), NameVar(inter[q])>>))]])

\* Lines 195-209.
AvoidConstraints(d) ==
  Flatten([i \in 1..Len(d.props) |->
             Flatten([a \in 1..Len(d.avoid_grouping) |->
                        AvoidPairs(i - 1, intersection(d.props[i].members, d.avoid_grouping[a]))])])

\* The ignore constraints without their negation.
IgnoreConstraintsPositive(d) ==
  [p \in 1..Len(d.ignore_groups) |-> GroupVar(d.ignore_groups[p])]

\* Lines 212-214.
IgnoreConstraints(d) ==
  [p \in 1..Len(d.ignore_groups) |-> Not(GroupVar(d.ignore_groups[p]))]

\* Line 217.
TotalConstraint(d) ==
  <<exactly([i \in 1..Len(d.names) |-> NameVar(i - 1)], Total)>>

\* All the solver.assert calls of main, in order.
Encode(d) ==
  MembershipConstraints(d) \o PairwiseConstraints(d) \o GroupConstraints(d)
    \o AvoidConstraints(d) \o IgnoreConstraints(d) \o TotalConstraint(d)

(***************************************************************************)
(* The result projector (main.rs 226-254).                                 *)
(***************************************************************************)
\* enumerate().filter(|(i, _)| values[*i]).map(|x| x.0): the indices of the true values.
Chosen(values) ==
  LET pick[p \in 0..Len(values)] ==
        IF p = 0 THEN <<>>
        ELSE IF values[p] THEN Append(pick[p - 1], p - 1)
        ELSE pick[p - 1]
  IN pick[Len(values)]

\* Lines 250-254: one printed line per chosen group.
Project(d, s) ==
  LET chosen_groups == Chosen(s.groups)
      chosen_names == Chosen(s.names)
  IN [p \in 1..Len(chosen_groups) |->
        LET i == chosen_groups[p]
            including == intersection(chosen_names, d.props[i + 1].members)
        IN [group |-> d.props[i + 1].name,
            including |-> including,
            including_names |-> [q \in 1..Len(including) |-> d.names[including[q] + 1]]]]

(***************************************************************************)
(* The configurations the program is run on.  Item names are the odd       *)
(* numbers, so an even number names no item; group names are multiples of  *)
(* ten.  Lists are written in an order that is not the sorted one.         *)
(***************************************************************************)
ItemName(k) == 2 * k + 1

ItemNames(indices) == [p \in 1..Len(indices) |-> ItemName(indices[p])]

\* A name that is no item and no group.
Unknown == ItemName(3) + 1

RawNames == [p \in 1..NumItems |-> ItemName(NumItems - p)]

Group(name, indices) == [name |-> name, values |-> ItemNames(indices)]

BaseGroups ==
  << Group(30, <<8, 9, 10, 11>>), Group(10, <<3, 1, 0, 2>>), Group(20, <<4, 5, 6, 7>>) >>

GroupLayouts ==
  { \* a group of five that contains a group of four
    BaseGroups \o << Group(50, <<16, 12, 13, 14, 15>>), Group(40, <<12, 13, 14, 15>>) >>,
    \* a group that straddles two others
    BaseGroups \o << Group(40, <<12, 13, 14, 15>>), Group(50, <<11, 12, 13, 14>>) >>,
    \* member lists that repeat a name
    BaseGroups \o << Group(40, <<12, 13, 12, 13>>), Group(50, <<14, 14, 15, 15>>),
                     Group(60, <<12, 13, 14, 15>>) >>,
    \* a member that is no item
    BaseGroups \o << Group(40, <<12, 13, 14, 15>>),
                     [name |-> 50, values |-> <<ItemName(12), Unknown, ItemName(14), ItemName(16)>>] >>,
    \* two groups with the same members inside a group of five
    BaseGroups \o << Group(60, <<12, 13, 14, 15>>), Group(50, <<16, 12, 13, 14, 15>>),
                     Group(40, <<12, 13, 14, 15>>) >> }

AvoidOptions ==
  { <<>>,
    << ItemNames(<<16, 12>>), ItemNames(<<4, 0>>) >>,
    << ItemNames(<<12, 16, 12>>) >>,
    << <<ItemName(12), Unknown>> >> }

IgnoreOptions == { <<>>, <<50>>, <<50, 10>>, <<Unknown>> }

LimitsOptions ==
  {[present |-> FALSE, avoid |-> <<>>, ignore |-> <<>>]}
    \cup {[present |-> TRUE, avoid |-> a, ignore |-> i] : a \in AvoidOptions, i \in IgnoreOptions}

Configs ==
  {[names |-> RawNames, props |-> l, limits |-> m] : l \in GroupLayouts, m \in LimitsOptions}

NoSolution == [names |-> <<>>, groups |-> <<>>]

(***************************************************************************)
(* main (main.rs 133-256) as a state machine.                              *)
(***************************************************************************)
Init ==
  /\ cfg \in Configs
  /\ pc = "start"
  /\ data = EmptyData
  /\ assertions = <<>>
  /\ remaining = {}
  /\ count = 0
  /\ yielded = {}
  /\ cur = NoSolution
  /\ output = <<>>
  /\ v1 = <<>> /\ v2 = <<>> /\ out = <<>> /\ ipc = "idle"

\* Line 134: create_data returns the Data or panics.
CreateData ==
  /\ pc = "start"
  /\ IF Panics(cfg)
       THEN pc' = "panicked" /\ data' = data
       ELSE pc' = "built" /\ data' = create_data(cfg)
  /\ UNCHANGED <<cfg, assertions, remaining, count, yielded, cur, output>>
  /\ UNCHANGED interVars

\* Lines 136-217: the variables are made and every constraint asserted.
EncodeConstraints ==
  /\ pc = "built"
  /\ assertions' = Encode(data)
  /\ pc' = "encoded"
  /\ UNCHANGED <<cfg, data, remaining, count, yielded, cur, output>>
  /\ UNCHANGED interVars

\* Lines 222-224: solver.solutions(...) makes the iterator over the solver.
Solutions ==
  /\ pc = "encoded"
  /\ remaining' = Models(assertions, Len(data.names), Len(data.props))
  /\ pc' = "iterate"
  /\ UNCHANGED <<cfg, data, assertions, count, yielded, cur, output>>
  /\ UNCHANGED interVars

\* next() without the blocking clause: the model found stays a model.
NextSolutionNoBlock ==
  /\ pc = "iterate"
  /\ count < MaxSolutions
  /\ \E s \in remaining :
       /\ cur' = s
       /\ yielded' = yielded \cup {s}
  /\ remaining' = remaining
  /\ count' = count + 1
  /\ output' = <<>>
  /\ pc' = "body"
  /\ UNCHANGED <<cfg, data, assertions>>
  /\ UNCHANGED interVars

\* One next() of the iterator under take(10): the solver is checked, the
\* values of the model are read and the model is blocked.
NextSolution ==
  /\ pc = "iterate"
  /\ count < MaxSolutions
  /\ \E s \in remaining :
       /\ cur' = s
       /\ remaining' = remaining \ {s}
       /\ yielded' = yielded \cup {s}
  /\ count' = count + 1
  /\ output' = <<>>
  /\ pc' = "body"
  /\ UNCHANGED <<cfg, data, assertions>>
  /\ UNCHANGED interVars

\* Lines 226-254: the loop body prints the chosen groups.
LoopBody ==
  /\ pc = "body"
  /\ output' = Project(data, cur)
  /\ pc' = "iterate"
  /\ UNCHANGED <<cfg, data, assertions, remaining, count, yielded, cur>>
  /\ UNCHANGED interVars

\* The loop ends: take(10) is used up or the solver is unsatisfiable.
Finish ==
  /\ pc = "iterate"
  /\ count >= MaxSolutions \/ remaining = {}
  /\ pc' = "done"
  /\ UNCHANGED <<cfg, data, assertions, remaining, count, yielded, cur, output>>
  /\ UNCHANGED interVars

Next ==
  \/ CreateData
  \/ EncodeConstraints
  \/ Solutions
  \/ NextSolution
  \/ LoopBody
  \/ Finish

Spec == Init /\ [][Next]_vars

(***************************************************************************)
(* intersection called on its own, on every pair of ascending              *)
(* duplicate-free index sequences over 0..MaxIndex.                        *)
(***************************************************************************)
RECURSIVE Ascending(_)
Ascending(S) ==
  IF S = {} THEN <<>>
  ELSE LET m == CHOOSE x \in S : \A y \in S : x <= y
       IN <<m>> \o Ascending(S \ {m})

AscendingSeqs == {Ascending(S) : S \in SUBSET (0..MaxIndex)}

NoConfig == [names |-> <<>>, props |-> <<>>, limits |-> [present |-> FALSE, avoid |-> <<>>, ignore |-> <<>>]]

IntersectionInit ==
  /\ v1 \in AscendingSeqs
  /\ v2 \in AscendingSeqs
  /\ out = <<>>
  /\ ipc = "call"
  /\ cfg = NoConfig
  /\ pc = "idle"
  /\ data = EmptyData
  /\ assertions = <<>>
  /\ remaining = {}
  /\ count = 0
  /\ yielded = {}
  /\ cur = NoSolution
  /\ output = <<>>

IntersectionCall ==
  /\ ipc = "call"
  /\ out' = intersection(v1, v2)
  /\ ipc' = "returned"
  /\ UNCHANGED <<v1, v2>>
  /\ UNCHANGED mainVars

IntersectionNext == IntersectionCall

IntersectionSpec == IntersectionInit /\ [][IntersectionNext]_vars

(***************************************************************************)
(* Properties.                                                             *)
(***************************************************************************)
\* The item indices whose variable is true in solution s.
Selected(s) == {i \in 0..(Len(s.names) - 1) : s.names[i + 1]}

\* The group indices whose variable is true in solution s.
Active(s) == {j \in 0..(Len(s.groups) - 1) : s.groups[j + 1]}

\* The items that are members of group j of the model.
Members(j) == Range(data.props[j + 1].members)

GroupIndices == 0..(Len(data.props) - 1)

StrictlyAscending(q) == \A p \in 1..(Len(q) - 1) : q[p] < q[p + 1]

\* C1: in every yielded solution every active group has exactly 4 of its
\* members' item variables true, and every line the projector prints lists
\* exactly 4 items.
C1_GroupCardinality ==
  /\ pc = "body" =>
       \A j \in Active(cur) : Cardinality(Members(j) \cap Selected(cur)) = GroupSize
  /\ (pc = "iterate" /\ count > 0) =>
       \A p \in 1..Len(output) : Len(output[p].including) = GroupSize

\* C2: in every yielded solution exactly 16 item variables are true.
C2_GlobalTotal ==
  pc = "body" => Cardinality(Selected(cur)) = Total

\* A solution is yielded under a model that has avoid-sets and ignore-groups.
C2_Witness ==
  /\ pc = "body"
  /\ data.avoid_grouping # <<>>
  /\ data.ignore_groups # <<>>
  /\ Cardinality(Selected(cur)) = Total
  /\ Len(cur.names) > Total

\* C3: in no yielded solution does an active group have two distinct selected
\* members that both belong to one avoid-set.
C3_AvoidGrouping ==
  pc = "body" =>
    ~ \E j \in Active(cur), a \in 1..Len(data.avoid_grouping) :
        \E x, y \in (Members(j) \cap Range(data.avoid_grouping[a])) \cap Selected(cur) : x # y

\* A yielded solution has an active group with two members in one avoid-set,
\* one of them selected.
C3_Witness ==
  /\ pc = "body"
  /\ \E j \in Active(cur), a \in 1..Len(data.avoid_grouping) :
       /\ Cardinality(Members(j) \cap Range(data.avoid_grouping[a])) >= 2
       /\ (Members(j) \cap Range(data.avoid_grouping[a])) \cap Selected(cur) # {}

\* C4: the variable of every ignored group is false in every yielded solution
\* and no printed line reports a group the configuration asks to ignore.
C4_IgnoreGroups ==
  /\ pc = "body" => \A p \in 1..Len(data.ignore_groups) : ~cur.groups[data.ignore_groups[p] + 1]
  /\ \A p \in 1..Len(output) : output[p].group \notin Range(cfg.limits.ignore)

\* A solution is yielded in which an ignored group has four selected members.
C4_Witness ==
  /\ pc = "body"
  /\ \E p \in 1..Len(data.ignore_groups) :
       Cardinality(Members(data.ignore_groups[p]) \cap Selected(cur)) = GroupSize

\* C5: one run yields at most 10 solutions and no two of them have the same
\* values of the item and group variables.
C5_Distinct ==
  /\ count <= MaxSolutions
  /\ Cardinality(yielded) = count
  /\ pc = "body" => cur \in yielded /\ cur \notin remaining

\* The loop ends at the tenth solution while the solver has more.
C5_Witness ==
  /\ pc = "done"
  /\ count = MaxSolutions
  /\ remaining # {}

\* Whether the configuration refers to an item name that is not in the name
\* list or asks to ignore a group that is not there.
MissingReference(c) ==
  \/ \E p \in 1..Len(c.props) : ~(Range(c.props[p].values) \subseteq Range(c.names))
  \/ /\ c.limits.present
     /\ \/ \E p \in 1..Len(c.limits.avoid) : ~(Range(c.limits.avoid[p]) \subseteq Range(c.names))
        \/ ~(Range(c.limits.ignore) \subseteq {c.props[p].name : p \in 1..Len(c.props)})

\* C6: with a reference to an absent item or group name, building the model
\* fails: no model is produced, nothing is asserted, no solution is yielded.
C6_NameNotFound ==
  MissingReference(cfg) =>
    /\ pc \in {"start", "panicked"}
    /\ data = EmptyData
    /\ assertions = <<>>
    /\ count = 0
    /\ yielded = {}
    /\ output = <<>>

\* The builder has failed on an ignore-group name alone.
C6_Witness ==
  /\ pc = "panicked"
  /\ \A p \in 1..Len(cfg.props) : Range(cfg.props[p].values) \subseteq Range(cfg.names)
  /\ \A p \in 1..Len(cfg.limits.avoid) : Range(cfg.limits.avoid[p]) \subseteq Range(cfg.names)
  /\ cfg.limits.ignore # <<>>

\* C7: on ascending duplicate-free sequences intersection returns the
\* ascending sequence of the common elements; it is commutative, idempotent
\* and empty against the empty sequence.
C7_Intersection ==
  ipc = "returned" =>
    /\ out = Ascending(Range(v1) \cap Range(v2))
    /\ out = intersection(v2, v1)
    /\ v1 = v2 => out = v1
    /\ v2 = <<>> => out = <<>>
    /\ v1 = <<>> => out = <<>>

\* A call has returned a proper part of both arguments, of two elements or more.
C7_Witness ==
  /\ ipc = "returned"
  /\ Len(out) >= 2
  /\ Len(out) < Len(v1)
  /\ Len(out) < Len(v2)
  /\ v1[1] # v2[1]

\* Whether f is the pair constraint of groups a and b (lines 181-183).
IsPairConstraint(f, a, b) ==
  /\ f.op = "implies"
  /\ f.args[1].op = "and"
  /\ Len(f.args[1].args) = 3
  /\ f.args[1].args[1] = GroupVar(a)
  /\ f.args[1].args[2] = GroupVar(b)

PairConstraintsOf(a, b) == {p \in 1..Len(assertions) : IsPairConstraint(assertions[p], a, b)}

\* C8 as stated: no constraint is asserted for a pair of groups whose
\* intersection is empty.
C8_EmptyPairsSkipped ==
  pc = "encoded" =>
    \A a \in GroupIndices, b \in GroupIndices :
      (b < a /\ Members(a) \cap Members(b) = {}) => PairConstraintsOf(a, b) = {}

\* C8 as amended: a pair constraint is asserted for every unordered pair of
\* groups, once; for a pair with an empty intersection it is an implication
\* whose antecedent is false, true under every assignment.
C8_EveryPairAsserted ==
  pc = "encoded" =>
    \A a \in GroupIndices, b \in GroupIndices :
      b < a =>
        /\ Cardinality(PairConstraintsOf(a, b)) = 1
        /\ Members(a) \cap Members(b) = {} =>
             \A p \in PairConstraintsOf(a, b) :
               /\ Eval3(assertions[p].args[1], {}, 0, {}, 0) = "F"
               /\ Eval3(assertions[p], {}, 0, {}, 0) = "T"

\* The constraints are asserted for a model with two groups that share no item.
C8_Witness ==
  /\ pc = "encoded"
  /\ \E a \in GroupIndices, b \in GroupIndices :
       /\ b < a
       /\ Members(a) \cap Members(b) = {}
       /\ PairConstraintsOf(a, b) # {}

\* Whether f is an avoid-grouping exclusion (line 205).
IsAvoidConstraint(f) ==
  /\ f.op = "not"
  /\ f.args[1].op = "and"
  /\ Len(f.args[1].args) = 3
  /\ f.args[1].args[2].op = "name"

\* C9: every avoid-set of the model is ascending without duplicates, and
\* every avoid-grouping exclusion asserted names two distinct items.
C9_AvoidSetsDeduplicated ==
  /\ \A a \in 1..Len(data.avoid_grouping) : StrictlyAscending(data.avoid_grouping[a])
  /\ pc = "encoded" =>
       \A p \in 1..Len(assertions) :
         IsAvoidConstraint(assertions[p]) =>
           assertions[p].args[1].args[2].k # assertions[p].args[1].args[3].k

\* C10: in every yielded solution two active groups with duplicate-free member
\* lists have the same selected members or no selected member in common.
C10_NoPartialOverlap ==
  pc = "body" =>
    \A a \in Active(cur), b \in Active(cur) :
      (/\ StrictlyAscending(data.props[a + 1].members)
       /\ StrictlyAscending(data.props[b + 1].members)) =>
        LET sa == Members(a) \cap Selected(cur)
            sb == Members(b) \cap Selected(cur)
        IN sa = sb \/ sa \cap sb = {}

\* A yielded solution has two active groups with different members and the
\* same four selected members.
C10_Witness ==
  /\ pc = "body"
  /\ \E a \in Active(cur), b \in Active(cur) :
       /\ Members(a) # Members(b)
       /\ StrictlyAscending(data.props[a + 1].members)
       /\ StrictlyAscending(data.props[b + 1].members)
       /\ Members(a) \cap Selected(cur) = Members(b) \cap Selected(cur)

====
